---- MODULE Spec2Model ----
(***************************************************************************)
(* The resume-token cache of fs/operations/resume.go.                      *)
(*                                                                         *)
(* State: the cache directory tree below filepath.Join(config.CacheDir,    *)
(* "resume") (directories, record files with their bytes and modification  *)
(* times), the configuration, the source object's current fingerprint, the *)
(* closure returned by createSetID for the running upload attempt, and a   *)
(* log of what the last operation did and returned.                        *)
(*                                                                         *)
(* A Go string is a sequence of one-character strings.  A path is the      *)
(* sequence of its components relative to the resume cache root, so the    *)
(* root itself is <<>>.                                                    *)
(***************************************************************************)
EXTENDS Integers, Sequences, FiniteSets, TLC

VARIABLES ci, srcFp, clock, dirs, files, attempt, last

vars == <<ci, srcFp, clock, dirs, files, attempt, last>>

----------------------------------------------------------------------------
(* Bounds *)

\* the filesystem clock takes the values 0..MaxClock; two writes with no
\* tick between them get the same modification time
MaxClock == 1

----------------------------------------------------------------------------
(* Values *)

Nil == "nil"

\* a fingerprint, and the longer one the source has after it changed
fp1 == <<"f", "p", "1">>
fp2 == <<"f", "p", "2", "b">>
r1 == <<"r", "1">>
r2 == <<"r", "\"">>
md5 == <<"m", "d", "5">>
state1 == <<"s", "t", "a", "t", "e", "1">>

\* fs.Fingerprint always starts with the decimal size, so it is never empty
Fingerprints == {fp1, fp2}
IDs == {r1, r2}
HashNames == {md5}
HashStates == {state1}

\* positions the destination's Resume can report
Positions == {-1, 0, 2, 3}

\* fs.ConfigInfo: ResumeLarger and MaxResumeCacheSize.  The encoded records
\* are 58 to 60 bytes long: under 59 one of them fits, one is as large as the
\* cap and one is larger; under 100 each fits and two do not; under 130 two
\* fit.
Configs ==
    { [ResumeLarger |-> 0, MaxResumeCacheSize |-> 59],
      [ResumeLarger |-> -1, MaxResumeCacheSize |-> 100],
      [ResumeLarger |-> 2, MaxResumeCacheSize |-> 130] }

\* (f.Name(), f.Root(), remote) of an upload, root and remote split at the
\* path separator
Keys ==
    { [name |-> "dst", root |-> <<"r">>, remote |-> <<"potato">>],
      [name |-> "dst", root |-> <<"r">>, remote |-> <<"a", "b">>],
      [name |-> "dst", root |-> <<"r", "a">>, remote |-> <<"b">>] }

\* what the environment does to the write of one SetID call: nothing, or it
\* fails os.MkdirAll, os.Create or, after n bytes, cacheFile.Write.  A write
\* cut at 0 bytes leaves the file empty; one cut at 20 bytes leaves the whole
\* fingerprint literal and the start of the next field.
IOOutcomes ==
    { [fail |-> "none", n |-> 0], [fail |-> "mkdir", n |-> 0],
      [fail |-> "create", n |-> 0], [fail |-> "write", n |-> 0],
      [fail |-> "write", n |-> 20] }
NoFailure == [fail |-> "none", n |-> 0]

\* what f.Features().Resume returns
ResumeOutcomes ==
    [position : Positions, err : {Nil}] \cup [position : {0, 3}, err : {"resume failed"}]

NoAttempt == [key |-> "none"]
NoCall == [made |-> FALSE]

----------------------------------------------------------------------------
(* Record codec: encoding/json on resumeJSON *)

\* json.Marshal writes a quote or a backslash of a string as two bytes
escapeChar(c) == IF c = "\"" \/ c = "\\" THEN <<"\\", c>> ELSE <<c>>

RECURSIVE escape(_)
escape(s) ==
    IF s = <<>> THEN <<>>
    ELSE IF Len(s) = 1 THEN escapeChar(s[1])
    ELSE escape(SubSeq(s, 1, Len(s) \div 2))
             \o escape(SubSeq(s, Len(s) \div 2 + 1, Len(s)))

\* a record written with the strings as they are, not escaped
marshalUnescaped(fprint, id, hashName, hashState) ==
    [fprint |-> fprint, id |-> id, hname |-> hashName, hstate |-> hashState]

\* The encoded record: the bytes of each string literal of the JSON object
\* {"fprint":"..","id":"..","hname":"..","hstate":".."}
marshalResumeJSON(fprint, id, hashName, hashState) ==
    [fprint |-> escape(fprint), id |-> escape(id),
     hname |-> escape(hashName), hstate |-> escape(hashState)]

\* len(data) of an encoded record
jsonLen(data) ==
    Len("{\"fprint\":\"") + Len(data.fprint) + Len("\",\"id\":\"") + Len(data.id)
    + Len("\",\"hname\":\"") + Len(data.hname)
    + Len("\",\"hstate\":\"") + Len(data.hstate) + Len("\"}")

\* File bytes are either a whole encoded record or the first n bytes of the
\* encoded record data.  n is at most 20, before the id literal starts, so
\* the bytes are known by n and, when it lies inside them, the fingerprint
\* literal.
Cut(n, data) ==
    [cut |-> n,
     fprint |-> IF n > Len("{\"fprint\":\"") + Len(data.fprint)
                THEN data.fprint ELSE <<>>]
IsCut(bytes) == "cut" \in DOMAIN bytes
Size(bytes) == IF IsCut(bytes) THEN bytes.cut ELSE jsonLen(bytes)

\* json.Unmarshal reading one string literal: a backslash takes the next byte
\* literally, a bare quote ends the literal early and the rest is a syntax
\* error
RECURSIVE unquote(_)
unquote(bs) ==
    IF bs = <<>> THEN [ok |-> TRUE, s |-> <<>>]
    ELSE IF Head(bs) = "\\"
    THEN IF Len(bs) < 2 THEN [ok |-> FALSE, s |-> <<>>]
         ELSE LET r == unquote(Tail(Tail(bs)))
              IN [ok |-> r.ok, s |-> <<bs[2]>> \o r.s]
    ELSE IF Head(bs) = "\"" THEN [ok |-> FALSE, s |-> <<>>]
    ELSE LET r == unquote(Tail(bs))
         IN [ok |-> r.ok, s |-> <<Head(bs)>> \o r.s]

DecodeError == [err |-> TRUE, fprint |-> <<>>, id |-> <<>>, hname |-> <<>>, hstate |-> <<>>]

\* a decoder that hands back the fields it met before the input ended
unmarshalLenient(bytes) ==
    IF IsCut(bytes)
    THEN [err |-> FALSE, fprint |-> unquote(bytes.fprint).s, id |-> <<>>,
          hname |-> <<>>, hstate |-> <<>>]
    ELSE [err |-> FALSE, fprint |-> unquote(bytes.fprint).s, id |-> unquote(bytes.id).s,
          hname |-> unquote(bytes.hname).s, hstate |-> unquote(bytes.hstate).s]

\* json.Unmarshal checks the whole input before it decodes any of it: the
\* first bytes of an object, which lack its closing brace, are an error
unmarshalResumeJSON(bytes) ==
    IF IsCut(bytes) THEN DecodeError
    ELSE LET f == unquote(bytes.fprint)
             i == unquote(bytes.id)
             n == unquote(bytes.hname)
             s == unquote(bytes.hstate)
         IN IF f.ok /\ i.ok /\ n.ok /\ s.ok
            THEN [err |-> FALSE, fprint |-> f.s, id |-> i.s, hname |-> n.s, hstate |-> s.s]
            ELSE DecodeError

----------------------------------------------------------------------------
(* Path mapper: filepath.Join *)

RECURSIVE cleanFrom(_, _)
cleanFrom(out, rest) ==
    IF rest = <<>> THEN out
    ELSE LET c == Head(rest)
         IN IF c = "." \/ c = ""
            THEN cleanFrom(out, Tail(rest))
            ELSE IF c = ".." /\ out # <<>> /\ out[Len(out)] # ".."
            THEN cleanFrom(SubSeq(out, 1, Len(out) - 1), Tail(rest))
            ELSE cleanFrom(Append(out, c), Tail(rest))

\* filepath.Join cleans the joined path
Join(elems) == cleanFrom(<<>>, elems)

rootCacheDir == <<>>

\* line 21, createResumeOpt's lookup location
cacheName(key) == Join(<<key.name>> \o key.root \o key.remote)

\* line 53
dirPath(key) == Join(rootCacheDir \o <<key.name>> \o key.root)

\* line 59, the location SetID writes
cachePath(key) == Join(dirPath(key) \o key.remote)

----------------------------------------------------------------------------
(* The filesystem *)

Parent(p) == SubSeq(p, 1, Len(p) - 1)
Prefixes(p) == {SubSeq(p, 1, i) : i \in 0..Len(p)}
IsChild(c, p) == Len(c) = Len(p) + 1 /\ SubSeq(c, 1, Len(p)) = p

\* os.MkdirAll fails when a component of the path is a file
canMkdirAll(f, p) == \A q \in Prefixes(p) : q \notin DOMAIN f

\* os.Create needs the parent directory and a name that is no directory
canCreate(d, f, p) == p # <<>> /\ Parent(p) \in d /\ p \notin d

PutFile(f, p, file) == [q \in DOMAIN f \cup {p} |-> IF q = p THEN file ELSE f[q]]
RemoveFile(f, p) == [q \in DOMAIN f \ {p} |-> f[q]]

\* directories os.Remove can delete: those with no entry
emptyDirs(d, f) == {x \in d : ~\E y \in d \cup DOMAIN f : IsChild(y, x)}

RECURSIVE sumSizes(_, _)
sumSizes(f, ps) ==
    IF ps = {} THEN 0
    ELSE LET p == CHOOSE q \in ps : TRUE
         IN Size(f[p].bytes) + sumSizes(f, ps \ {p})

\* totalCacheSize as the walk of lines 88-105 accumulates it
totalCacheSize(f) == sumSizes(f, DOMAIN f)

----------------------------------------------------------------------------
(* Cache store, lookup side: readResumeCache *)

\* a lookup that accepts the record whatever its fingerprint
fingerprintIgnored(existingFingerprint, fingerprint) == TRUE

\* line 143
fingerprintMatches(existingFingerprint, fingerprint) ==
    existingFingerprint = fingerprint

\* a lookup that opens the record file with os.Create
openCreate(d, f, name) ==
    IF canCreate(d, f, name)
    THEN PutFile(f, name, [bytes |-> Cut(0, marshalResumeJSON(<<>>, <<>>, <<>>, <<>>)),
                           mtime |-> clock])
    ELSE f

\* line 130: os.Open opens for reading and leaves the tree as it is
openFile(d, f, name) == f

NoResume ==
    [resumeID |-> <<>>, hashName |-> <<>>, hashState |-> <<>>, attemptResume |-> FALSE]

\* os.Open/ioutil.ReadAll give data only for an existing regular file; a
\* missing path, a directory or a path below a file all end in "no resume"
readResumeCache(name) ==
    IF name \notin DOMAIN files THEN NoResume
    ELSE LET u == unmarshalResumeJSON(files[name].bytes)
         IN IF u.err THEN NoResume
            ELSE IF u.fprint # <<>> /\ fingerprintMatches(u.fprint, srcFp)
            THEN [resumeID |-> u.id, hashName |-> u.hname,
                  hashState |-> u.hstate, attemptResume |-> TRUE]
            ELSE NoResume

----------------------------------------------------------------------------
(* Resume coordinator: createResumeOpt *)

\* line 20
resumeEnabled == ci.ResumeLarger >= 0

\* a coordinator that does not look at the error Resume returned
acceptedDespiteError(position, resumeErr) == position > ci.ResumeLarger

\* a coordinator that also resumes at a position equal to the threshold
acceptedAtThreshold(position, resumeErr) ==
    resumeErr = Nil /\ position >= ci.ResumeLarger

\* line 26
resumeAccepted(position, resumeErr) ==
    resumeErr = Nil /\ position > ci.ResumeLarger

\* lines 19 and 27: the fields of the returned OptionResume
resumeOptID(resumeID) == <<>>
resumeOptPos(accepted, position) == IF accepted THEN position ELSE 0

\* the backend's answer is drawn only when Resume is called
CreateResumeOpt(key) ==
    \E r \in {IF resumeEnabled THEN readResumeCache(cacheName(key)) ELSE NoResume} :
    \E out \in IF r.attemptResume THEN ResumeOutcomes ELSE {[position |-> 0, err |-> Nil]} :
       /\ attempt' = [key |-> key, cacheCleaned |-> FALSE, called |-> FALSE,
                    passed |-> FALSE]
       /\ last' = [op |-> "createResumeOpt",
                   read |-> resumeEnabled,
                   call |-> IF r.attemptResume
                            THEN [made |-> TRUE, remote |-> key.remote,
                                  resumeID |-> r.resumeID, hashName |-> r.hashName,
                                  hashState |-> r.hashState,
                                  position |-> out.position, err |-> out.err]
                            ELSE NoCall,
                   ID |-> resumeOptID(r.resumeID),
                   Pos |-> resumeOptPos(r.attemptResume
                                          /\ resumeAccepted(out.position, out.err),
                                        out.position)]
       /\ files' = openFile(dirs, files, cacheName(key))
       /\ UNCHANGED <<ci, srcFp, clock, dirs>>

----------------------------------------------------------------------------
(* Eviction manager: cleanCache *)

\* an order that puts the newest file first
after(f, p, q) == f[p].mtime > f[q].mtime

\* a pass that never finds the cache over its budget
neverOverBudget(total) == FALSE

\* a pass that also finds a cache exactly as large as the budget over it
atOrOverBudget(total) == total >= ci.MaxResumeCacheSize

\* a pass that stops deleting as soon as the total equals the budget
underOrAtBudget(total) == total <= ci.MaxResumeCacheSize

\* line 109
overBudget(total) == total > ci.MaxResumeCacheSize

\* line 114
underBudget(total) == total < ci.MaxResumeCacheSize

\* line 111, the order sort.Slice is asked for
before(f, p, q) == f[p].mtime < f[q].mtime

\* sort.Slice is not stable: every order of the walked paths in which no
\* path comes after one it is before
sortSlice(f) ==
    LET ps == DOMAIN f
        n == Cardinality(ps)
    IN { s \in [1..n -> ps] :
           /\ \A i, j \in 1..n : i # j => s[i] # s[j]
           /\ \A i, j \in 1..n : i < j => ~before(f, s[j], s[i]) }

\* lines 113-122; rmFail is the index of the path whose os.Remove fails, 0
\* when none does; failed is the path the returned error names
RECURSIVE removeOldest(_, _, _, _, _, _)
removeOldest(order, i, f, total, rmFail, removed) ==
    IF i > Len(order) \/ underBudget(total)
    THEN [files |-> f, err |-> Nil, removed |-> removed, failed |-> Nil]
    ELSE IF rmFail = i
    THEN [files |-> f, err |-> "error removing oldest cache file", removed |-> removed,
          failed |-> order[i]]
    ELSE removeOldest(order, i + 1, RemoveFile(f, order[i]),
                      total - Size(f[order[i]].bytes), rmFail,
                      removed \cup {order[i]})

\* The walk removes the directories that are empty when it reaches them, adds
\* up the files, and the oldest files go while the total is not under the
\* budget.
cleanCache(d, f, order, rmFail) ==
    IF rootCacheDir \notin d
    THEN [dirs |-> d, files |-> f, total |-> 0, removed |-> {}, failed |-> Nil,
          err |-> "error walking through cache when cleaning cache dir"]
    ELSE LET total == totalCacheSize(f)
             r == IF overBudget(total)
                  THEN removeOldest(order, 1, f, total, rmFail, {})
                  ELSE [files |-> f, err |-> Nil, removed |-> {}, failed |-> Nil]
         IN [dirs |-> d \ emptyDirs(d, f), total |-> total] @@ r

----------------------------------------------------------------------------
(* Cache store, write side, and the persistence callback: createSetID *)

\* a callback that writes the record whatever its size
fitsAlways(data) == TRUE

\* line 51
fitsCache(data) == jsonLen(data) < ci.MaxResumeCacheSize

\* line 68 tests err, the result of os.Create, where errWrite is meant
writeFailed(err, errWrite) == err # Nil

\* lines 51-71.  io is what the environment does to the write.
writeCache(key, data, io) ==
    IF ~fitsCache(data)
    THEN [dirs |-> dirs, files |-> files, wrote |-> "skipped", err |-> Nil]
    ELSE IF io.fail = "mkdir" \/ ~canMkdirAll(files, dirPath(key))
    THEN [dirs |-> dirs, files |-> files, wrote |-> "none",
          err |-> "failed to create cache directory"]
    ELSE LET d1 == dirs \cup Prefixes(dirPath(key))
         IN IF io.fail = "create" \/ ~canCreate(d1, files, cachePath(key))
            THEN [dirs |-> d1, files |-> files, wrote |-> "none",
                  err |-> "failed to create cache file"]
            ELSE IF io.fail = "write"
            THEN [dirs |-> d1,
                  files |-> PutFile(files, cachePath(key),
                                    [bytes |-> Cut(io.n, data), mtime |-> clock]),
                  wrote |-> "partial",
                  err |-> IF writeFailed(Nil, "short write")
                          THEN "failed to write JSON to file" ELSE Nil]
            ELSE [dirs |-> d1,
                  files |-> PutFile(files, cachePath(key),
                                    [bytes |-> data, mtime |-> clock]),
                  wrote |-> "full", err |-> Nil]

\* a callback that drops the error of cleanCache
swallowCleanErr(err) == Nil

\* lines 73-75
wrapCleanErr(err) == IF err # Nil THEN "failed to clean resume cache" ELSE Nil

\* lines 72-77: the eviction pass of a call that got past the write, one
\* result for each order sort.Slice may give and each os.Remove that may fail
NoPass(d, f) ==
    [dirs |-> d, files |-> f, total |-> 0, removed |-> {}, failed |-> Nil,
     err |-> Nil, ran |-> FALSE]

cleanOnce(cacheCleaned, d, f) ==
    IF cacheCleaned THEN {NoPass(d, f)}
    ELSE { cleanCache(d, f, order, rmFail) @@ [ran |-> TRUE] :
             order \in sortSlice(f), rmFail \in 0..Cardinality(DOMAIN f) }

\* One call of the closure createSetID returned for the running attempt
SetID(ID, hashName, hashState) ==
    /\ attempt # NoAttempt
    /\ \E data \in {marshalResumeJSON(srcFp, ID, hashName, hashState)} :
       \E io \in IF fitsCache(data) THEN IOOutcomes ELSE {NoFailure} :
       \E w \in {writeCache(attempt.key, data, io)} :
       \E c \in IF w.err # Nil THEN {NoPass(w.dirs, w.files)}
                ELSE cleanOnce(attempt.cacheCleaned, w.dirs, w.files) :
          /\ dirs' = c.dirs
          /\ files' = c.files
          /\ attempt' = [attempt EXCEPT
                           !.called = TRUE,
                           !.passed = @ \/ c.ran,
                           !.cacheCleaned = IF w.err = Nil /\ c.err = Nil THEN TRUE ELSE @]
          /\ last' = [op |-> "SetID", ID |-> ID, hashName |-> hashName,
                      hashState |-> hashState, fingerprint |-> srcFp,
                      wrote |-> w.wrote, io |-> io.fail,
                      err |-> IF w.err # Nil THEN w.err ELSE wrapCleanErr(c.err),
                      pass |-> IF ~c.ran THEN "none"
                               ELSE IF c.err = Nil THEN "ok" ELSE "failed",
                      total |-> c.total, removed |-> c.removed,
                      failed |-> c.failed]
    /\ UNCHANGED <<ci, srcFp, clock>>

----------------------------------------------------------------------------
(* Environment *)

\* the filesystem clock advances
Tick ==
    /\ clock < MaxClock
    /\ clock' = clock + 1
    /\ last' = [op |-> "Tick"]
    /\ UNCHANGED <<ci, srcFp, dirs, files, attempt>>

\* the source object changes between attempts
ModifySource ==
    /\ srcFp' \in Fingerprints \ {srcFp}
    /\ last' = [op |-> "ModifySource"]
    /\ UNCHANGED <<ci, clock, dirs, files, attempt>>

----------------------------------------------------------------------------
(* Specification *)

Init ==
    /\ ci \in Configs
    /\ srcFp = fp1
    /\ clock = 0
    /\ dirs = {}
    /\ files = <<>>
    /\ attempt = NoAttempt
    /\ last = [op |-> "init"]

Next ==
    \/ \E key \in Keys : CreateResumeOpt(key)
    \/ \E ID \in IDs, hashName \in HashNames, hashState \in HashStates :
         SetID(ID, hashName, hashState)
    \/ Tick
    \/ ModifySource

Spec == Init /\ [][Next]_vars

----------------------------------------------------------------------------
(* Specification of cleanCache alone, over the cache contents it can meet *)

\* newest modification time of a file in the cache at the start
MaxMtime == 3

FileSizes == {100, 200, 300}

Budgets == {350, 400}

OtherKey == [name |-> "dst", root |-> <<"r">>, remote |-> <<"c">>]

CachePaths == {cachePath(key) : key \in Keys \cup {OtherKey}}

\* a record of n bytes: the hash state takes up what the other fields leave
recordOfSize(n) ==
    LET rest == n - jsonLen(marshalResumeJSON(fp1, r1, md5, <<>>))
    IN marshalResumeJSON(fp1, r1, md5, [i \in 1..rest |-> "x"])

CacheFiles == [bytes : {recordOfSize(n) : n \in FileSizes}, mtime : 1..MaxMtime]

\* every set of record files below the root, each in its directory; the
\* directories of the other paths are there and empty
InitEvict ==
    /\ ci \in [ResumeLarger : {0}, MaxResumeCacheSize : Budgets]
    /\ srcFp = fp1
    /\ clock = MaxMtime
    /\ dirs = UNION {Prefixes(Parent(p)) : p \in CachePaths}
    /\ \E ps \in SUBSET CachePaths : files \in [ps -> CacheFiles]
    /\ attempt = NoAttempt
    /\ last = [op |-> "init"]

\* One run of cleanCache on the cache root
CleanCache ==
    /\ \E c \in cleanOnce(FALSE, dirs, files) :
          /\ dirs' = c.dirs
          /\ files' = c.files
          /\ last' = [op |-> "cleanCache", total |-> c.total,
                      removed |-> c.removed, failed |-> c.failed, err |-> c.err]
    /\ UNCHANGED <<ci, srcFp, clock, attempt>>

NextEvict == CleanCache

SpecEvict == InitEvict /\ [][NextEvict]_vars

----------------------------------------------------------------------------
(* Specification of the first call of a closure, over the cache contents *)
(* it can meet                                                            *)

\* the closure createSetID returns, not called yet
NewAttempt(key) ==
    [key |-> key, cacheCleaned |-> FALSE, called |-> FALSE, passed |-> FALSE]

\* the cache of InitEvict, at a time equal to or after the newest
\* modification time in it, and a closure for the key of OtherKey
InitCallback ==
    /\ ci \in [ResumeLarger : {0}, MaxResumeCacheSize : Budgets]
    /\ srcFp = fp1
    /\ clock \in {MaxMtime, MaxMtime + 1}
    /\ dirs = UNION {Prefixes(Parent(p)) : p \in CachePaths}
    /\ \E ps \in SUBSET CachePaths : files \in [ps -> CacheFiles]
    /\ attempt = NewAttempt(OtherKey)
    /\ last = [op |-> "init"]

FirstSetID ==
    /\ ~attempt.called
    /\ \E ID \in IDs, hashName \in HashNames, hashState \in HashStates :
          SetID(ID, hashName, hashState)

NextCallback == FirstSetID

SpecCallback == InitCallback /\ [][NextCallback]_vars

----------------------------------------------------------------------------
(* Specification of the path mapper alone, over pairs of keys *)

PathNames == {"dst", "dst2"}

PathRoots == {<<"r">>, <<"r", "a">>}

\* remotes of one and of several components, two of them with ".."
PathRemotes ==
    { <<"potato">>, <<"b">>, <<"a", "b">>, <<"a", "..", "potato">>,
      <<"..", "..", "dst2", "r", "potato">> }

PathKeys == [name : PathNames, root : PathRoots, remote : PathRemotes]

\* The locations createResumeOpt reads and SetID writes for key1, and the
\* one SetID writes for key2
MapKeys ==
    /\ \E key1, key2 \in PathKeys :
          last' = [op |-> "keyPath", key1 |-> key1, key2 |-> key2,
                   lookup1 |-> cacheName(key1), write1 |-> cachePath(key1),
                   write2 |-> cachePath(key2)]
    /\ UNCHANGED <<ci, srcFp, clock, dirs, files, attempt>>

NextPath == MapKeys

SpecPath == Init /\ [][NextPath]_vars

----------------------------------------------------------------------------
(* Vocabulary of the properties *)

\* the location of the running attempt's key
KeyPath == cachePath(attempt.key)

\* the bytes at p are the whole encoding of the record (fp, id, hn, hs)
Holds(f, p, fp, id, hn, hs) ==
    p \in DOMAIN f /\ f[p].bytes = marshalResumeJSON(fp, id, hn, hs)

\* p holds a whole record whose fingerprint is fp
HoldsFingerprint(f, p, fp) ==
    \E id \in IDs, hn \in HashNames, hs \in HashStates : Holds(f, p, fp, id, hn, hs)

AfterCreateResumeOpt == last.op = "createResumeOpt"
AfterSetID == last.op = "SetID"

\* the encoded record of the SetID call logged in l
LoggedData(l) == marshalResumeJSON(l.fingerprint, l.ID, l.hashName, l.hashState)

----------------------------------------------------------------------------
(* C1 *)

\* C1: when the record stored at the key carries a fingerprint other than
\* the source's current one, createResumeOpt returns Pos 0 and does not call
\* Resume; it returns a Pos > 0 only when the record at the key carries
\* exactly the source's current fingerprint.
C1_FingerprintGating ==
    AfterCreateResumeOpt =>
        /\ (\E fp \in Fingerprints \ {srcFp} : HoldsFingerprint(files, cacheName(attempt.key), fp))
               => (last.Pos = 0 /\ ~last.call.made)
        /\ last.Pos > 0 => HoldsFingerprint(files, cacheName(attempt.key), srcFp)

C1_Witness ==
    /\ AfterCreateResumeOpt
    /\ resumeEnabled
    /\ srcFp = fp2
    /\ HoldsFingerprint(files, cacheName(attempt.key), fp1)
    /\ last.Pos = 0

----------------------------------------------------------------------------
(* C2 *)

\* C2: with resume enabled, when the key's location holds the record a
\* SetID call stored as (resumeID, hashName, hashState) under the fingerprint
\* the source still has, createResumeOpt calls Resume with exactly (remote,
\* resumeID, hashName, hashState), and returns the position Resume reports
\* when that position exceeds the threshold.
C2_WriteThenResume ==
    (AfterCreateResumeOpt /\ resumeEnabled) =>
        \A id \in IDs, hn \in HashNames, hs \in HashStates :
            Holds(files, cacheName(attempt.key), srcFp, id, hn, hs) =>
                /\ last.call.made
                /\ last.call.remote = attempt.key.remote
                /\ last.call.resumeID = id
                /\ last.call.hashName = hn
                /\ last.call.hashState = hs
                /\ (last.call.err = Nil /\ last.call.position > ci.ResumeLarger)
                       => last.Pos = last.call.position

\* the upload interrupted after 2 bytes resumes at 2 under threshold 0
C2_Witness ==
    /\ AfterCreateResumeOpt
    /\ ci.ResumeLarger = 0
    /\ attempt.key.remote = <<"potato">>
    /\ Holds(files, cacheName(attempt.key), fp1, r1, md5, state1)
    /\ srcFp = fp1
    /\ last.call.made
    /\ last.call.position = 2
    /\ last.Pos = 2

----------------------------------------------------------------------------
(* C3 *)

\* C3 as stated: after a SetID call that persisted its record (the encoded
\* record under the cap, no I/O failure), the key's location holds exactly
\* the record of this call.
C3_AsStated ==
    (AfterSetID /\ last.wrote = "full" /\ last.err = Nil)
        => Holds(files, KeyPath, last.fingerprint, last.ID, last.hashName, last.hashState)

\* C3, the part that holds: after a SetID call that wrote its whole record
\* (which takes an encoded record strictly smaller than the cap), the key's
\* location holds no remnant of an earlier record: it holds exactly the
\* record of this call, stamped with the time of the call, or nothing at
\* all, and nothing only when the eviction pass of this same call removed it
\* while a file with a modification time not earlier than its own stays.
C3_WriteReplaces ==
    (AfterSetID /\ last.wrote = "full") =>
        /\ jsonLen(LoggedData(last)) < ci.MaxResumeCacheSize
        /\ KeyPath \in DOMAIN files
               => files[KeyPath] = [bytes |-> LoggedData(last), mtime |-> clock]
        /\ KeyPath \notin DOMAIN files
               => /\ KeyPath \in last.removed
                  /\ \E q \in DOMAIN files : files[q].mtime >= clock

\* a whole record has replaced a different one at the key
C3_Witness ==
    /\ AfterSetID
    /\ last.wrote = "full"
    /\ last.ID = r2
    /\ attempt.called
    /\ attempt.cacheCleaned
    /\ last.pass = "none"
    /\ Holds(files, KeyPath, srcFp, r2, md5, state1)

----------------------------------------------------------------------------
(* C4 *)

\* C4: when a valid record is found but Resume returns an error or a
\* position <= 0, createResumeOpt returns Pos 0.
C4_AbsorbedFailure ==
    (/\ AfterCreateResumeOpt
     /\ last.call.made
     /\ (last.call.err # Nil \/ last.call.position <= 0))
        => last.Pos = 0

C4_Witness ==
    /\ AfterCreateResumeOpt
    /\ last.call.made
    /\ last.call.err # Nil
    /\ last.call.position = 3
    /\ last.Pos = 0

----------------------------------------------------------------------------
(* C5 *)

\* C5: the returned Pos is the position Resume reported when the threshold
\* is >= 0 and the position is strictly greater than it, and 0 in every
\* other case; under a negative threshold the cache is not read and Resume
\* is not called.
C5_ThresholdRule ==
    AfterCreateResumeOpt =>
        /\ last.Pos = IF /\ last.call.made
                         /\ last.call.err = Nil
                         /\ ci.ResumeLarger >= 0
                         /\ last.call.position > ci.ResumeLarger
                      THEN last.call.position
                      ELSE 0
        /\ ci.ResumeLarger < 0 => (~last.read /\ ~last.call.made)

\* a position equal to the threshold is not resumed
C5_Witness ==
    /\ AfterCreateResumeOpt
    /\ last.call.made
    /\ last.call.err = Nil
    /\ ci.ResumeLarger = 2
    /\ last.call.position = 2
    /\ last.Pos = 0

\* resume disabled while a valid record waits at the key
C5_WitnessDisabled ==
    /\ AfterCreateResumeOpt
    /\ ci.ResumeLarger < 0
    /\ HoldsFingerprint(files, cacheName(attempt.key), srcFp)

----------------------------------------------------------------------------
(* C6 *)

\* a step that is a SetID call whose encoded record is larger than the cap
OversizeSetID ==
    /\ last'.op = "SetID"
    /\ jsonLen(LoggedData(last')) > ci.MaxResumeCacheSize

\* C6 as stated: a SetID call whose encoded record is larger than the cap
\* never creates the file at the key and leaves a file already there exactly
\* as it was.
C6_AsStated ==
    [][OversizeSetID =>
          /\ KeyPath \in DOMAIN files' <=> KeyPath \in DOMAIN files
          /\ KeyPath \in DOMAIN files => files'[KeyPath] = files[KeyPath]]_vars

\* a step that is a SetID call whose encoded record is not smaller than the
\* cap
UnfitSetID ==
    /\ last'.op = "SetID"
    /\ jsonLen(LoggedData(last')) >= ci.MaxResumeCacheSize

\* C6, the part that holds: a SetID call whose encoded record is not smaller
\* than the cap never creates the file at the key and never rewrites a file
\* already there: that file keeps its bytes and its modification time, or is
\* deleted by the eviction pass of the same call.
C6_OversizeNotWritten ==
    [][UnfitSetID =>
          /\ last'.wrote = "skipped"
          /\ KeyPath \in DOMAIN files' => KeyPath \in DOMAIN files
          /\ (KeyPath \in DOMAIN files /\ KeyPath \in DOMAIN files')
                 => files'[KeyPath] = files[KeyPath]
          /\ (KeyPath \in DOMAIN files /\ KeyPath \notin DOMAIN files')
                 => (last'.pass # "none" /\ KeyPath \in last'.removed)]_vars

\* an oversize call has left the earlier record at its key in place
C6_Witness ==
    /\ AfterSetID
    /\ jsonLen(LoggedData(last)) > ci.MaxResumeCacheSize
    /\ last.wrote = "skipped"
    /\ Holds(files, KeyPath, fp1, r1, md5, state1)

----------------------------------------------------------------------------
(* C8 *)

\* C8: whenever the eviction pass of a SetID call completes without error,
\* the sizes of all files under the cache root add up to at most the budget;
\* and no file in the cache is larger than the per-record cap.
C8_BudgetInvariant ==
    /\ (AfterSetID /\ last.pass = "ok")
           => totalCacheSize(files) <= ci.MaxResumeCacheSize
    /\ \A p \in DOMAIN files : Size(files[p].bytes) <= ci.MaxResumeCacheSize

\* a pass had to delete a record to get back under the budget
C8_Witness ==
    /\ AfterSetID
    /\ last.pass = "ok"
    /\ last.total > ci.MaxResumeCacheSize
    /\ last.removed # {}
    /\ files # <<>>

----------------------------------------------------------------------------
(* C9 *)

\* C9: the first call of a closure returned by createSetID runs cleanCache
\* and no later call of the same closure runs it again, so that the calls of
\* one closure run cleanCache exactly once.
C9_OnePassPerAttempt ==
    [][last'.op = "SetID" =>
          IF attempt.called THEN last'.pass = "none" ELSE last'.pass # "none"]_vars

\* C9, the upper bound alone: a closure whose earlier call ran cleanCache
\* does not run it again.
C9_NoSecondPass ==
    [][(last'.op = "SetID" /\ attempt.passed) => last'.pass = "none"]_vars

----------------------------------------------------------------------------
(* C10 *)

\* C10: when createResumeOpt finds a valid record and Resume returns a
\* position above the threshold, the returned OptionResume has Pos equal to
\* that position and ID equal to the resume ID stored in the record.
C10_TokenHandedBack ==
    (/\ AfterCreateResumeOpt
     /\ last.call.made
     /\ last.call.err = Nil
     /\ last.call.position > ci.ResumeLarger)
        => (last.Pos = last.call.position /\ last.ID = last.call.resumeID)

----------------------------------------------------------------------------
(* C7 *)

\* a step that is a run of cleanCache over a cache above the budget, ended
\* without error
EvictionPass ==
    /\ last'.op = "cleanCache"
    /\ last'.err = Nil
    /\ last'.total > ci.MaxResumeCacheSize

\* the paths of f holding size1, size2, size3 bytes, modified in this order
Example(f, size1, size2, size3) ==
    { s \in [1..3 -> DOMAIN f] :
        /\ DOMAIN f = {s[1], s[2], s[3]}
        /\ Size(f[s[1]].bytes) = size1
        /\ Size(f[s[2]].bytes) = size2
        /\ Size(f[s[3]].bytes) = size3
        /\ f[s[1]].mtime < f[s[2]].mtime
        /\ f[s[2]].mtime < f[s[3]].mtime }

\* C7: when the files under the cache root add up to more than the budget B
\* and cleanCache ends without error, the remaining total is below B, the
\* survivors are untouched, every deleted file is no newer than every
\* survivor, and putting back a newest of the deleted files would bring the
\* total to B or more.  Sizes 100, 200, 300 modified in this order with
\* B = 350 leave only the 300-byte file.
C7_EvictionCorrect ==
    [][EvictionPass =>
          /\ last'.total = totalCacheSize(files)
          /\ totalCacheSize(files') < ci.MaxResumeCacheSize
          /\ DOMAIN files' = DOMAIN files \ last'.removed
          /\ last'.removed \subseteq DOMAIN files
          /\ last'.removed # {}
          /\ \A p \in DOMAIN files' : files'[p] = files[p]
          /\ \A p \in last'.removed : \A q \in DOMAIN files' :
                files[p].mtime <= files[q].mtime
          /\ \E p \in last'.removed :
                /\ \A q \in last'.removed : files[q].mtime <= files[p].mtime
                /\ totalCacheSize(files') + Size(files[p].bytes)
                       >= ci.MaxResumeCacheSize
          /\ ci.MaxResumeCacheSize = 350 =>
                \A s \in Example(files, 100, 200, 300) : DOMAIN files' = {s[3]}]_vars

\* the pass has deleted two of three files, 600 bytes in all, and kept the
\* 300-byte file under a budget of 350
C7_Witness ==
    /\ last.op = "cleanCache"
    /\ last.err = Nil
    /\ last.total = 600
    /\ ci.MaxResumeCacheSize = 350
    /\ Cardinality(last.removed) = 2
    /\ \E p \in DOMAIN files :
          /\ DOMAIN files = {p}
          /\ Size(files[p].bytes) = 300
          /\ files[p].mtime = MaxMtime

----------------------------------------------------------------------------
(* C11 *)

\* C11: when the file at the key holds only the first bytes of a record
\* (empty, or cut short by an interrupted write), createResumeOpt does what
\* it does when there is no file: it returns Pos 0 and does not call Resume.
C11_TruncatedAsMissing ==
    (/\ AfterCreateResumeOpt
     /\ cacheName(attempt.key) \in DOMAIN files
     /\ IsCut(files[cacheName(attempt.key)].bytes))
        => (last.Pos = 0 /\ ~last.call.made)

\* the lookup met a file cut after the fingerprint of the unchanged source
C11_Witness ==
    /\ AfterCreateResumeOpt
    /\ resumeEnabled
    /\ cacheName(attempt.key) \in DOMAIN files
    /\ files[cacheName(attempt.key)].bytes = Cut(20, marshalResumeJSON(srcFp, r1, md5, state1))
    /\ last.Pos = 0
    /\ ~last.call.made

----------------------------------------------------------------------------
(* C12 *)

\* C12: when os.MkdirAll, os.Create or cacheFile.Write fails in a SetID
\* call, the call returns a non-nil error naming the failed step.
C12_WriteFailureSurfaced ==
    AfterSetID =>
        /\ last.io = "mkdir" => last.err = "failed to create cache directory"
        /\ last.io = "create" => last.err = "failed to create cache file"
        /\ last.io = "write" => last.err = "failed to write JSON to file"

----------------------------------------------------------------------------
(* C13 *)

\* C13: a SetID call whose encoded record exceeds the cap skips the write,
\* sets up the cache directory and returns nil unless an os.Remove of its
\* eviction pass fails, from every cache state.
C13_OversizeIsNoError ==
    (/\ AfterSetID
     /\ jsonLen(LoggedData(last)) > ci.MaxResumeCacheSize
     /\ last.failed = Nil)
        => /\ last.wrote = "skipped"
           /\ last.err = Nil
           /\ dirPath(attempt.key) \in dirs

\* C13, its return value alone
C13_OversizeReturnsNil ==
    (/\ AfterSetID
     /\ jsonLen(LoggedData(last)) > ci.MaxResumeCacheSize
     /\ last.failed = Nil)
        => last.err = Nil

----------------------------------------------------------------------------
(* C14 *)

\* C14: a SetID call with a record under the cap that meets no I/O failure
\* from the environment creates the missing parent directories of the key's
\* location and writes the record there, also when the remote has several
\* components.
C14_ParentsCreated ==
    (/\ AfterSetID
     /\ last.io = "none"
     /\ jsonLen(LoggedData(last)) < ci.MaxResumeCacheSize)
        => /\ last.wrote = "full"
           /\ Parent(KeyPath) \in dirs

----------------------------------------------------------------------------
(* C15 *)

\* C15: two distinct (name, root, remote) triples never map to the same
\* location, also when a remote holds separators or "..", and the lookup and
\* the write of one key use the same location.
C15_CollisionFree ==
    last.op = "keyPath" =>
        /\ last.key1 # last.key2 => last.write1 # last.write2
        /\ last.lookup1 = last.write1

\* a remote with no "", "." or ".." component
IsCleanRemote(remote) == \A i \in 1..Len(remote) : remote[i] \notin {"", ".", ".."}

\* C15, the part that holds: the lookup and the write of one key use the
\* same location, and under one destination (name, root) two different
\* remotes with no "." or ".." component map to different locations.
C15_CleanRemotesApart ==
    last.op = "keyPath" =>
        /\ last.lookup1 = last.write1
        /\ (/\ last.key1.name = last.key2.name
            /\ last.key1.root = last.key2.root
            /\ last.key1.remote # last.key2.remote
            /\ IsCleanRemote(last.key1.remote)
            /\ IsCleanRemote(last.key2.remote))
               => last.write1 # last.write2

----------------------------------------------------------------------------
(* C16 *)

\* C16: when the files under the cache root add up to at most the budget,
\* the budget itself included, cleanCache deletes no file: the files and
\* their contents after the pass are those before it, and the only
\* directories that go are directories that were empty.
C16_WithinBudgetUntouched ==
    [][(/\ last'.op = "cleanCache"
        /\ totalCacheSize(files) <= ci.MaxResumeCacheSize)
          => /\ files' = files
             /\ last'.removed = {}
             /\ last'.failed = Nil
             /\ dirs' \subseteq dirs
             /\ \A d \in dirs \ dirs' : d \in emptyDirs(dirs, files)]_vars

\* a pass over two files that fill the budget exactly has kept both and
\* pruned an empty directory
C16_Witness ==
    /\ last.op = "cleanCache"
    /\ last.err = Nil
    /\ last.total = ci.MaxResumeCacheSize
    /\ last.removed = {}
    /\ Cardinality(DOMAIN files) = 2
    /\ totalCacheSize(files) = ci.MaxResumeCacheSize
    /\ \E p \in CachePaths : Parent(p) \notin dirs

----------------------------------------------------------------------------
(* C17 *)

\* the paths a SetID step leaves a file at when its pass deletes nothing
Written == IF last'.wrote \in {"full", "partial"} THEN {KeyPath} ELSE {}

\* the modification time the pass of a SetID step sees for p
MtimeAtPass(p) == IF p \in Written THEN clock ELSE files[p].mtime

\* C17: when an os.Remove of the eviction pass fails, cleanCache returns an
\* error naming that file, SetID returns it wrapped, the file whose removal
\* failed and every file the pass had not reached stay, and the files
\* deleted before it, each no newer than it, stay deleted.
C17_RemoveFailure ==
    [][(last'.op = "SetID" /\ last'.failed # Nil) =>
          /\ last'.err = "failed to clean resume cache"
          /\ last'.pass = "failed"
          /\ ~attempt'.cacheCleaned
          /\ last'.failed \in DOMAIN files'
          /\ last'.failed \notin last'.removed
          /\ DOMAIN files' = (DOMAIN files \cup Written) \ last'.removed
          /\ \A p \in DOMAIN files' \ Written : files'[p] = files[p]
          /\ \A p \in last'.removed :
                MtimeAtPass(p) <= files'[last'.failed].mtime
          /\ \A q \in DOMAIN files' :
                files'[last'.failed].mtime <= files'[q].mtime]_vars

\* the pass deleted a file, failed on the next, and left the cache over the
\* budget
C17_Witness ==
    /\ AfterSetID
    /\ last.failed # Nil
    /\ last.removed # {}
    /\ last.err = "failed to clean resume cache"
    /\ totalCacheSize(files) > ci.MaxResumeCacheSize

----------------------------------------------------------------------------
(* C18 *)

\* C18: when the record a SetID call has written in full is strictly newer
\* than every other file in the cache, the eviction pass of the same call
\* does not delete it: the record is at the key after the call, whatever the
\* sizes and ages of the other files.
C18_NewestSurvives ==
    [][(/\ last'.op = "SetID"
        /\ last'.wrote = "full"
        /\ \A q \in DOMAIN files \ {KeyPath} : files[q].mtime < clock)
          => /\ KeyPath \notin last'.removed
             /\ files'[KeyPath] = [bytes |-> LoggedData(last'), mtime |-> clock]]_vars

\* the pass of a first call deleted every other file and kept the record
\* just written
C18_Witness ==
    /\ AfterSetID
    /\ last.wrote = "full"
    /\ last.pass = "ok"
    /\ Cardinality(last.removed) = 2
    /\ DOMAIN files = {KeyPath}
    /\ files[KeyPath] = [bytes |-> LoggedData(last), mtime |-> MaxMtime + 1]

----------------------------------------------------------------------------
(* C19 *)

\* C19: createResumeOpt, with readResumeCache, leaves the cache as it is:
\* after it every file and directory under the cache root is what it was
\* before, whatever the lookup found and whatever Resume returned.
C19_LookupReadOnly ==
    [][last'.op = "createResumeOpt" => (files' = files /\ dirs' = dirs)]_vars

\* Resume failed on a valid record, and the record is still at the key
C19_Witness ==
    /\ AfterCreateResumeOpt
    /\ last.call.made
    /\ last.call.err # Nil
    /\ last.Pos = 0
    /\ Holds(files, cacheName(attempt.key), srcFp, last.call.resumeID,
             last.call.hashName, last.call.hashState)

====
